---- MODULE Spec2Model ----
(***************************************************************************)
(* A model of the CV builder page component (src/src/app/page.tsx): the    *)
(* form document, the six-step wizard and its gate, the list helpers, the  *)
(* section order and visibility, the JSON export / import / autosave       *)
(* restore, the debounced autosave timer, the composed preview and the     *)
(* keyword analysis.  A string is a sequence of one-character strings, so  *)
(* that trimming, lower-casing, tokenizing and the validators' regular     *)
(* expressions are computed character by character as the code does.       *)
(* Storage is read once, at mount; the timer callback that writes it is    *)
(* an action of SpecAutosave only, and in the other specifications the     *)
(* armed timer stays pending.  In the same way the render that the keyword *)
(* effect asks for by storing its result is an action of SpecRenders only: *)
(* effects.due records that it is scheduled and effects.ref tells the      *)
(* array the effect stored last from the one before.                       *)
(***************************************************************************)
EXTENDS Integers, Sequences, FiniteSets, TLC

VARIABLES
  form,               \* the form state cell: the document
  step,               \* the step state cell, 0..5
  errors,             \* the errors state cell: field name -> message
  sectionOrder,       \* the sectionOrder state cell
  sectionVisibility,  \* the sectionVisibility state cell
  storage,            \* the localStorage item "cvBuilderData"
  mounted,            \* whether the restore effect has run
  reader,             \* the file a FileReader of importJSON is reading, if any
  imageReader,        \* the image a FileReader of handleImageUpload is reading
  expSugToggles,      \* the expSugToggles state cell: one flag per experience
  timers,             \* the pending timers of the autosave effect, oldest first
  jobDescription,     \* the jobDescription state cell
  missingKeywords,    \* the missingKeywords state cell
  effects,            \* whether a render the keyword effect asked for is due
  last                \* the last event handled and its arguments

vars == <<form, step, errors, sectionOrder, sectionVisibility,
          storage, mounted, reader, imageReader, expSugToggles, timers,
          jobDescription, missingKeywords, effects, last>>

(***************************************************************************)
(* Characters and strings                                                  *)
(***************************************************************************)
UpperSeq == <<"A","B","C","D","E","F","G","H","I","J","K","L","M",
              "N","O","P","Q","R","S","T","U","V","W","X","Y","Z">>

LowerSeq == <<"a","b","c","d","e","f","g","h","i","j","k","l","m",
              "n","o","p","q","r","s","t","u","v","w","x","y","z">>

Range(s) == {s[i] : i \in DOMAIN s}

Letters == Range(UpperSeq) \cup Range(LowerSeq)

Digits == {"0","1","2","3","4","5","6","7","8","9"}

\* \s of a JavaScript regular expression, and what String.prototype.trim strips
Whitespace == {" ", "\t", "\n", "\r"}

\* \w of a JavaScript regular expression
WordChars == Letters \cup Digits \cup {"_"}

\* String.prototype.toLowerCase, one character
LowerChar(c) ==
  IF c \in Range(UpperSeq)
    THEN LowerSeq[CHOOSE i \in DOMAIN UpperSeq : UpperSeq[i] = c]
    ELSE c

\* String.prototype.toLowerCase
ToLower(s) == [i \in DOMAIN s |-> LowerChar(s[i])]

\* String.prototype.trim: drop the leading and trailing whitespace
Trim(s) ==
  LET keep == {i \in DOMAIN s : s[i] \notin Whitespace}
  IN  IF keep = {} THEN <<>>
      ELSE LET lo == CHOOSE i \in keep : \A j \in keep : i <= j
               hi == CHOOSE i \in keep : \A j \in keep : j <= i
           IN  SubSeq(s, lo, hi)

\* a variant of the name pattern that lets digits pass
HasNonNameCharOrDigit(value) ==
  \E i \in DOMAIN value :
    value[i] \notin (Letters \cup Digits \cup Whitespace \cup {"'", "-"})

(***************************************************************************)
(* Validators                                                              *)
(***************************************************************************)
\* /[^a-zA-Z\s'-]/.test(value)
HasNonNameChar(value) ==
  \E i \in DOMAIN value : value[i] \notin (Letters \cup Whitespace \cup {"'", "-"})

\* /[^0-9\s-]/.test(value)
HasNonPhoneChar(value) ==
  \E i \in DOMAIN value : value[i] \notin (Digits \cup Whitespace \cup {"-"})

\* the grave accent, which a string of this notation cannot hold
Backtick == "GRAVE"

\* the character class of the local part of the email pattern
EmailLocalChars ==
  WordChars \cup {".", "!", "#", "$", "%", "&", "'", "*", "+", "/", "=",
                  "?", "^", "_", Backtick, "{", "|", "}", "~", "-"}

\* [\w-]+(?:\.[\w-]+)+ anchored at both ends: two or more non-empty labels
\* of word characters and hyphens, separated by single dots
EmailDomainOk(d) ==
  /\ Len(d) > 0
  /\ \A i \in DOMAIN d : d[i] \in (WordChars \cup {"-", "."})
  /\ \E i \in DOMAIN d : d[i] = "."
  /\ d[1] # "." /\ d[Len(d)] # "."
  /\ \A i \in 1..(Len(d) - 1) : ~(d[i] = "." /\ d[i + 1] = ".")

\* /^[\w.!#$%&'*+/=?^_GRAVE{|}~-]+@[\w-]+(?:\.[\w-]+)+$/.test(value)
EmailMatches(value) ==
  \E p \in DOMAIN value :
    /\ value[p] = "@"
    /\ p > 1
    /\ \A i \in 1..(p - 1) : value[i] \in EmailLocalChars
    /\ EmailDomainOk(SubSeq(value, p + 1, Len(value)))

\* /^https?:\/\/.+\..+/.test(value): a scheme, then at least one character,
\* a dot, and at least one more character (. matches all but line breaks)
UrlMatches(value) ==
  \E n \in {7, 8} :
    /\ Len(value) >= n + 3
    /\ SubSeq(value, 1, n) =
         (IF n = 7 THEN <<"h","t","t","p",":","/","/">>
                   ELSE <<"h","t","t","p","s",":","/","/">>)
    /\ \E k \in (n + 2)..(Len(value) - 1) :
         /\ value[k] = "."
         /\ \A j \in (n + 1)..(k + 1) : value[j] \notin {"\n", "\r"}

MsgRequired == "This field is required"
MsgLetters == "Only letters are allowed"
MsgEmailRequired == "Email is required"
MsgEmailInvalid == "Please enter a valid email address"
MsgPhoneRequired == "Phone number is required"
MsgPhoneInvalid == "Only digits, spaces and hyphens are allowed"
MsgUrlInvalid == "Please enter a valid URL (starting with http(s)://)"

\* the message for one field; "" means no error
validateField(name, value) ==
  CASE name \in {"firstName", "lastName"} ->
         IF Len(Trim(value)) = 0 THEN MsgRequired
         ELSE IF HasNonNameChar(value) THEN MsgLetters
         ELSE ""
    [] name = "email" ->
         IF Len(Trim(value)) = 0 THEN MsgEmailRequired
         ELSE IF ~EmailMatches(value) THEN MsgEmailInvalid
         ELSE ""
    [] name = "phone" ->
         IF Len(Trim(value)) = 0 THEN MsgPhoneRequired
         ELSE IF HasNonPhoneChar(value) THEN MsgPhoneInvalid
         ELSE ""
    [] name \in {"linkedin", "website"} ->
         IF Len(Trim(value)) = 0 THEN ""
         ELSE IF UrlMatches(value) THEN ""
         ELSE MsgUrlInvalid
    [] OTHER -> ""

(***************************************************************************)
(* The document and the other state cells                                  *)
(***************************************************************************)
\* the largest number of records the model lets an entry list hold
MaxEntries == 2

\* profileImage is null (the empty sequence) or one data URL
Null == <<>>

initialForm ==
  [ firstName |-> <<>>,
    lastName |-> <<>>,
    title |-> <<>>,
    email |-> <<>>,
    countryCode |-> <<"+","3","1">>,
    phone |-> <<>>,
    summary |-> <<>>,
    educationList |-> <<>>,
    experienceList |-> <<>>,
    skillsList |-> <<>>,
    languagesList |-> <<>>,
    hobbiesList |-> <<>>,
    projectsList |-> <<>>,
    certificationsList |-> <<>>,
    linkedin |-> <<>>,
    website |-> <<>>,
    accentColor |-> <<"#","0","0","7","0","f","3">>,
    template |-> <<"p","r","o","f","e","s","s","i","o","n","a","l">>,
    fontFamily |-> <<"s","a","n","s">>,
    profileImage |-> Null ]

\* the initial value of the sectionOrder state cell
defaultSectionOrder ==
  <<"education", "experience", "projects", "certifications",
    "skills", "languages", "hobbies">>

SectionIds == Range(defaultSectionOrder)

\* the initial value of the sectionVisibility state cell
defaultSectionVisibility == [s \in SectionIds |-> TRUE]

\* the array literal resetAll passes to setSectionOrder
resetSectionOrder ==
  <<"education", "experience", "projects", "certifications",
    "skills", "languages", "hobbies">>

\* a variant of the object literal that leaves the hobbies hidden
resetSectionVisibilityHidingHobbies ==
  [s \in Range(resetSectionOrder) |-> s # "hobbies"]

\* the object literal resetAll passes to setSectionVisibility
resetSectionVisibility ==
  [ education |-> TRUE, experience |-> TRUE, projects |-> TRUE,
    certifications |-> TRUE, skills |-> TRUE, languages |-> TRUE,
    hobbies |-> TRUE ]

\* the initial value of the errors state cell: an object with no keys
noErrors == [k \in {} |-> ""]

\* a string used as a condition: the empty string is falsy
Truthy(str) == Len(str) > 0

\* a variant that fills the gap with the last entry
RemoveAtMovingLast(list, index) ==
  IF index \notin 0..(Len(list) - 1) THEN list
  ELSE [k \in 1..(Len(list) - 1) |->
          IF k = index + 1 THEN list[Len(list)] ELSE list[k]]

(***************************************************************************)
(* The entry lists                                                         *)
(***************************************************************************)
\* Array.prototype.filter((_, idx) => idx !== index), indices from 0
RemoveAt(list, index) ==
  LET keep == {i \in DOMAIN list : i - 1 # index}
      pos(k) == CHOOSE i \in keep : Cardinality({j \in keep : j <= i}) = k
  IN  [k \in 1..Cardinality(keep) |-> list[pos(k)]]

newEducation == [institution |-> <<>>, degree |-> <<>>, year |-> <<>>]

newExperience ==
  [role |-> <<>>, company |-> <<>>, period |-> <<>>, description |-> <<>>]

addEducation(prev) ==
  [prev EXCEPT !.educationList = Append(@, newEducation)]

removeEducation(prev, index) ==
  [prev EXCEPT !.educationList = RemoveAt(@, index)]

addExperience(prev) ==
  [prev EXCEPT !.experienceList = Append(@, newExperience)]

removeExperience(prev, index) ==
  [prev EXCEPT !.experienceList = RemoveAt(@, index)]

\* list.map((item, idx) => idx === index ? {...item, [key]: value} : item)
UpdateAt(list, index, key, value) ==
  [i \in DOMAIN list |->
     IF i - 1 = index THEN [list[i] EXCEPT ![key] = value] ELSE list[i]]

updateEducation(prev, index, key, value) ==
  [prev EXCEPT !.educationList = UpdateAt(@, index, key, value)]

updateExperience(prev, index, key, value) ==
  [prev EXCEPT !.experienceList = UpdateAt(@, index, key, value)]

newLanguage == [language |-> <<>>, level |-> <<>>]

addLanguage(prev) ==
  [prev EXCEPT !.languagesList = Append(@, newLanguage)]

updateLanguage(prev, index, key, value) ==
  [prev EXCEPT !.languagesList = UpdateAt(@, index, key, value)]

removeLanguage(prev, index) ==
  [prev EXCEPT !.languagesList = RemoveAt(@, index)]

newProject == [title |-> <<>>, description |-> <<>>, url |-> <<>>]

\* a variant that puts the new project first
addProjectFirst(prev) ==
  [prev EXCEPT !.projectsList = <<newProject>> \o @]

addProject(prev) ==
  [prev EXCEPT !.projectsList = Append(@, newProject)]

updateProject(prev, index, key, value) ==
  [prev EXCEPT !.projectsList = UpdateAt(@, index, key, value)]

removeProject(prev, index) ==
  [prev EXCEPT !.projectsList = RemoveAt(@, index)]

newCertification == [name |-> <<>>, issuer |-> <<>>, year |-> <<>>]

addCertification(prev) ==
  [prev EXCEPT !.certificationsList = Append(@, newCertification)]

updateCertification(prev, index, key, value) ==
  [prev EXCEPT !.certificationsList = UpdateAt(@, index, key, value)]

removeCertification(prev, index) ==
  [prev EXCEPT !.certificationsList = RemoveAt(@, index)]

\* the duplicate test of addSkill and addHobby: the argument is compared as
\* given, lower-cased but not trimmed
ExistsIn(list, value) ==
  \E i \in DOMAIN list : ToLower(list[i]) = ToLower(value)

\* the updater of addSkill and addHobby on one list
AddUnique(list, value) ==
  IF ExistsIn(list, value) \/ ~Truthy(Trim(value))
    THEN list
    ELSE Append(list, Trim(value))

addSkill(prev, skill) ==
  [prev EXCEPT !.skillsList = AddUnique(@, skill)]

removeSkill(prev, index) ==
  [prev EXCEPT !.skillsList = RemoveAt(@, index)]

addHobby(prev, hobby) ==
  [prev EXCEPT !.hobbiesList = AddUnique(@, hobby)]

removeHobby(prev, index) ==
  [prev EXCEPT !.hobbiesList = RemoveAt(@, index)]

\* the start position of Array.prototype.splice: a negative start counts
\* from the end, and the result is clamped to 0..length
SpliceStart(list, start) ==
  IF start < 0
    THEN (IF Len(list) + start < 0 THEN 0 ELSE Len(list) + start)
    ELSE (IF start > Len(list) THEN Len(list) ELSE start)

\* the value of `item` when list.splice(index, 1) removes nothing
undefinedEntry == [undefined |-> TRUE]

undefinedId == "undefined"

\* a variant that puts the item back where it was taken
MoveItemBack(list, index, newIndex, undefined) ==
  LET from == SpliceStart(list, index)
      removed == from < Len(list)
      item == IF removed THEN list[from + 1] ELSE undefined
      rest == IF removed THEN RemoveAt(list, from) ELSE list
  IN  SubSeq(rest, 1, from) \o <<item>> \o SubSeq(rest, from + 1, Len(rest))

\* const [item] = list.splice(index, 1); list.splice(newIndex, 0, item):
\* the first splice removes nothing when its start is the length, and the
\* second then inserts undefined
MoveItem(list, index, newIndex, undefined) ==
  LET from == SpliceStart(list, index)
      removed == from < Len(list)
      item == IF removed THEN list[from + 1] ELSE undefined
      rest == IF removed THEN RemoveAt(list, from) ELSE list
      to == SpliceStart(rest, newIndex)
  IN  SubSeq(rest, 1, to) \o <<item>> \o SubSeq(rest, to + 1, Len(rest))

\* the updater of moveSection
moveSection(prev, index, direction) ==
  LET newIndex == index + direction
  IN  IF newIndex < 0 \/ newIndex >= Len(prev) THEN prev
      ELSE MoveItem(prev, index, newIndex, undefinedId)

\* the updaters of the four entry moves
moveEducationEntry(prev, index, direction) ==
  LET newIndex == index + direction
  IN  IF newIndex < 0 \/ newIndex >= Len(prev.educationList) THEN prev
      ELSE [prev EXCEPT !.educationList =
              MoveItem(@, index, newIndex, undefinedEntry)]

moveExperienceEntry(prev, index, direction) ==
  LET newIndex == index + direction
  IN  IF newIndex < 0 \/ newIndex >= Len(prev.experienceList) THEN prev
      ELSE [prev EXCEPT !.experienceList =
              MoveItem(@, index, newIndex, undefinedEntry)]

\* the updater of expSugToggles in moveExperienceEntry, which has no bounds
\* check; an undefined flag is only ever tested for truth, so it is FALSE
moveExpSugToggle(prev, index, direction) ==
  MoveItem(prev, index, index + direction, FALSE)

moveProjectEntry(prev, index, direction) ==
  LET newIndex == index + direction
  IN  IF newIndex < 0 \/ newIndex >= Len(prev.projectsList) THEN prev
      ELSE [prev EXCEPT !.projectsList =
              MoveItem(@, index, newIndex, undefinedEntry)]

moveCertificationEntry(prev, index, direction) ==
  LET newIndex == index + direction
  IN  IF newIndex < 0 \/ newIndex >= Len(prev.certificationsList) THEN prev
      ELSE [prev EXCEPT !.certificationsList =
              MoveItem(@, index, newIndex, undefinedEntry)]

(***************************************************************************)
(* The step gate                                                           *)
(***************************************************************************)
\* nextStep with an advance of two steps
nextStepByTwo(s) == IF s + 2 < 5 THEN s + 2 ELSE 5

nextStep(s) == IF s + 1 < 5 THEN s + 1 ELSE 5

prevStep(s) == IF s - 1 > 0 THEN s - 1 ELSE 0

RequiredErrorKeys == {"firstName", "lastName", "email", "phone"}

\* Object.entries(errors).some(([key, msg]) => msg && (step === 0 ? ... : true))
hasErrors(errs, s) ==
  \E key \in DOMAIN errs :
    /\ errs[key] # ""
    /\ (IF s = 0 THEN key \in RequiredErrorKeys ELSE TRUE)

\* isNextDisabled without the case of step 4
isNextDisabledWithoutSkills(f, errs, s) ==
  CASE s = 0 -> \/ ~Truthy(f.firstName)
                \/ ~Truthy(f.lastName)
                \/ ~Truthy(f.title)
                \/ ~Truthy(f.email)
                \/ ~Truthy(f.phone)
                \/ hasErrors(errs, s)
    [] s = 1 -> ~Truthy(f.summary)
    [] s = 2 -> Len(f.educationList) = 0
    [] s = 3 -> Len(f.experienceList) = 0
    [] OTHER -> FALSE

isNextDisabled(f, errs, s) ==
  CASE s = 0 -> \/ ~Truthy(f.firstName)
                \/ ~Truthy(f.lastName)
                \/ ~Truthy(f.title)
                \/ ~Truthy(f.email)
                \/ ~Truthy(f.phone)
                \/ hasErrors(errs, s)
    [] s = 1 -> ~Truthy(f.summary)
    [] s = 2 -> Len(f.educationList) = 0
    [] s = 3 -> Len(f.experienceList) = 0
    [] s = 4 -> Len(f.skillsList) = 0
    [] OTHER -> FALSE

\* the rendering conditions of the two navigation buttons
BackButtonShown(s) == s > 0 /\ s < 5

NextButtonShown(s) == s < 5

(***************************************************************************)
(* Serialization: the value written by export and autosave, read by import *)
(* and by the restore at mount.  A file or a storage item either holds no  *)
(* value, text that JSON.parse rejects, or a parsed object; each of the    *)
(* three top-level keys of a parsed object is absent (<<>>) or carries a   *)
(* value (<<v>>).                                                          *)
(***************************************************************************)
NoItem == [kind |-> "none"]

NotJson == [kind |-> "garbage"]

Json(f, o, v) ==
  [kind |-> "json", form |-> f, sectionOrder |-> o, sectionVisibility |-> v]

\* Serialize without the visibility map
SerializeWithoutVisibility(f, o, v) == Json(<<f>>, <<o>>, <<>>)

\* JSON.stringify({ form, sectionOrder, sectionVisibility }) as JSON.parse reads it
Serialize(f, o, v) == Json(<<f>>, <<o>>, <<v>>)

Triple(f, o, v) == [form |-> f, sectionOrder |-> o, sectionVisibility |-> v]

\* ApplyParsed as a full replacement: an absent key resets its part
ApplyParsedReplacingAll(parsed, cur) ==
  [ form |-> IF Len(parsed.form) > 0 THEN parsed.form[1] ELSE initialForm,
    sectionOrder |->
      IF Len(parsed.sectionOrder) > 0 THEN parsed.sectionOrder[1]
                                      ELSE defaultSectionOrder,
    sectionVisibility |->
      IF Len(parsed.sectionVisibility) > 0 THEN parsed.sectionVisibility[1]
                                           ELSE defaultSectionVisibility ]

\* if (parsed.form) setForm(parsed.form); if (parsed.sectionOrder) ...;
\* if (parsed.sectionVisibility) ...: an absent key is undefined, hence falsy;
\* an object or an array is truthy whatever it holds
ApplyParsed(parsed, cur) ==
  [ form |-> IF Len(parsed.form) > 0 THEN parsed.form[1] ELSE cur.form,
    sectionOrder |->
      IF Len(parsed.sectionOrder) > 0 THEN parsed.sectionOrder[1]
                                      ELSE cur.sectionOrder,
    sectionVisibility |->
      IF Len(parsed.sectionVisibility) > 0 THEN parsed.sectionVisibility[1]
                                           ELSE cur.sectionVisibility ]

\* a variant whose catch block falls back to the defaults
DeserializeResettingOnError(content, cur) ==
  IF content.kind = "json" THEN ApplyParsed(content, cur)
  ELSE IF content.kind = "garbage"
         THEN Triple(initialForm, defaultSectionOrder, defaultSectionVisibility)
         ELSE cur

\* the try block of importJSON's onload and of the restore effect: a missing
\* item is skipped, a parse error is caught and ignored
Deserialize(content, cur) ==
  IF content.kind = "json" THEN ApplyParsed(content, cur) ELSE cur

\* a variant of the updater that refuses a value its validator rejects
handleChangeRejectingInvalid(prev, name, value) ==
  IF validateField(name, value) # "" THEN prev
  ELSE [prev EXCEPT ![name] = value]

\* the updater handleChange passes to setForm: {...prev, [name]: value}
handleChange(prev, name, value) == [prev EXCEPT ![name] = value]

(***************************************************************************)
(* The preview: the blocks of the composed CV, in order                    *)
(***************************************************************************)
\* a variant whose experience case renders an empty list
SectionRendersEmptyExperience(f, sectionName) ==
  CASE sectionName = "education" -> Len(f.educationList) > 0
    [] sectionName = "experience" -> TRUE
    [] sectionName = "skills" -> Len(f.skillsList) > 0
    [] sectionName = "languages" -> Len(f.languagesList) > 0
    [] sectionName = "hobbies" -> Len(f.hobbiesList) > 0
    [] sectionName = "projects" -> Len(f.projectsList) > 0
    [] sectionName = "certifications" -> Len(f.certificationsList) > 0
    [] OTHER -> FALSE

\* the switch of the composer: whether the case of a section renders a block
SectionRenders(f, sectionName) ==
  CASE sectionName = "education" -> Len(f.educationList) > 0
    [] sectionName = "experience" -> Len(f.experienceList) > 0
    [] sectionName = "skills" -> Len(f.skillsList) > 0
    [] sectionName = "languages" -> Len(f.languagesList) > 0
    [] sectionName = "hobbies" -> Len(f.hobbiesList) > 0
    [] sectionName = "projects" -> Len(f.projectsList) > 0
    [] sectionName = "certifications" -> Len(f.certificationsList) > 0
    [] OTHER -> FALSE

\* sectionVisibility[sectionName] as a condition: a missing entry is
\* undefined, which is falsy
VisibilityEntry(vis, sectionName) ==
  IF sectionName \in DOMAIN vis THEN vis[sectionName] ELSE FALSE

\* the blocks of the preview: the summary when it is not empty, then one
\* block per section of the order that is not skipped
preview(f, order, vis) ==
  (IF Truthy(f.summary) THEN <<"summary">> ELSE <<>>)
  \o SelectSeq(order, LAMBDA sectionName :
                 VisibilityEntry(vis, sectionName) /\ SectionRenders(f, sectionName))

\* the checked attribute of a checkbox of the reorder list:
\* sectionVisibility[sec] ?? true
CheckboxChecked(vis, sec) ==
  IF sec \in DOMAIN vis THEN vis[sec] ELSE TRUE

(***************************************************************************)
(* The keyword analysis of a job description against the resume            *)
(***************************************************************************)
stopWords ==
  { <<"t","h","e">>, <<"a","n","d">>, <<"f","o","r">>, <<"w","i","t","h">>,
    <<"f","r","o","m">>, <<"t","h","a","t">>, <<"t","h","i","s">>,
    <<"t","h","e","s","e">>, <<"t","h","o","s","e">>, <<"h","a","v","e">>,
    <<"h","a","s">>, <<"h","a","d">>, <<"w","i","l","l">>,
    <<"w","o","u","l","d">>, <<"s","h","a","l","l">>,
    <<"s","h","o","u","l","d">>, <<"c","a","n">>, <<"c","o","u","l","d">>,
    <<"a">>, <<"a","n">>, <<"i","n">>, <<"o","n">>, <<"t","o">>,
    <<"o","f">>, <<"i","t">>, <<"i","s">>, <<"a","r","e">>,
    <<"w","a","s">>, <<"w","e","r","e">>, <<"b","e">>, <<"a","s">>,
    <<"a","t">>, <<"b","y">>, <<"o","r">>, <<"w","e">>, <<"y","o","u">>,
    <<"y","o","u","r">>, <<"o","u","r">>, <<"u","s">>, <<"t","h","e","y">>,
    <<"t","h","e","m">>, <<"t","h","e","i","r">>, <<"h","e">>,
    <<"s","h","e">>, <<"h","i","s">>, <<"h","e","r">>, <<"i","t","s">>,
    <<"b","u","t">>, <<"i","f">>, <<"a","b","o","u","t">>,
    <<"t","h","a","n">>, <<"i","n","t","o">>, <<"o","u","t">>, <<"u","p">>,
    <<"d","o","w","n">>, <<"w","h","o">>, <<"w","h","a","t">>,
    <<"w","h","e","n">>, <<"w","h","e","r","e">>, <<"w","h","y">>,
    <<"h","o","w">> }

\* replace(/[^a-z0-9\s]/g, ' ')
ReplaceNonWord(str) ==
  [i \in DOMAIN str |->
     IF str[i] \in Range(LowerSeq) \cup Digits \cup Whitespace THEN str[i]
                                                                ELSE " "]

\* the index in from..Len(str)+1 of the first character at or after from
\* that is not whitespace
RECURSIVE SkipWhitespace(_, _)
SkipWhitespace(str, from) ==
  IF from > Len(str) \/ str[from] \notin Whitespace THEN from
  ELSE SkipWhitespace(str, from + 1)

\* split(/\s+/) from position from on, cur being the piece read so far: a
\* run of whitespace ends a piece, so leading and trailing whitespace yield
\* an empty piece
RECURSIVE SplitFrom(_, _, _)
SplitFrom(str, from, cur) ==
  IF from > Len(str) THEN <<cur>>
  ELSE IF str[from] \in Whitespace
         THEN <<cur>> \o SplitFrom(str, SkipWhitespace(str, from), <<>>)
         ELSE SplitFrom(str, from + 1, Append(cur, str[from]))

SplitOnWhitespace(str) == SplitFrom(str, 1, <<>>)

\* the iteration order of new Set(words): each word once, at its first
\* occurrence
RECURSIVE SetOf(_)
SetOf(words) ==
  IF words = <<>> THEN <<>>
  ELSE LET init == SetOf(SubSeq(words, 1, Len(words) - 1))
           w == words[Len(words)]
       IN  IF w \in Range(init) THEN init ELSE Append(init, w)

\* Array.prototype.join
RECURSIVE Join(_, _)
Join(list, sep) ==
  IF list = <<>> THEN <<>>
  ELSE IF Len(list) = 1 THEN list[1]
  ELSE list[1] \o sep \o Join(Tail(list), sep)

\* String.prototype.includes
Includes(text, word) ==
  \E i \in 0..(Len(text) - Len(word)) :
    SubSeq(text, i + 1, i + Len(word)) = word

\* a variant that keeps the tokens of length three
jdWordsKeepingShort(jd) ==
  SelectSeq(SplitOnWhitespace(ReplaceNonWord(ToLower(jd))),
            LAMBDA w : Len(w) > 2 /\ w \notin stopWords)

\* the tokens of the job description that count as keywords
jdWords(jd) ==
  SelectSeq(SplitOnWhitespace(ReplaceNonWord(ToLower(jd))),
            LAMBDA w : Len(w) > 3 /\ w \notin stopWords)

\* the resume text the keywords are looked up in
resumeText(f) ==
  ToLower(Join(
    <<f.summary, Join(f.skillsList, <<" ">>)>>
    \o [i \in DOMAIN f.experienceList |->
          LET exp == f.experienceList[i]
          IN  exp.role \o <<" ">> \o exp.company \o <<" ">> \o exp.description]
    \o [i \in DOMAIN f.educationList |->
          LET edu == f.educationList[i]
          IN  edu.degree \o <<" ">> \o edu.institution]
    \o <<Join(f.hobbiesList, <<" ">>)>>,
    <<" ">>))

\* a variant that reports the keywords in reverse order
MissingKeywordsReversed(jd, f) ==
  IF ~Truthy(Trim(jd)) THEN <<>>
  ELSE LET found == SelectSeq(SetOf(jdWords(jd)),
                              LAMBDA w : ~Includes(resumeText(f), w))
       IN  [i \in DOMAIN found |-> found[Len(found) + 1 - i]]

\* the value the keyword effect passes to setMissingKeywords
MissingKeywords(jd, f) ==
  IF ~Truthy(Trim(jd)) THEN <<>>
  ELSE SelectSeq(SetOf(jdWords(jd)), LAMBDA w : ~Includes(resumeText(f), w))

(***************************************************************************)
(* Effects.  An effect runs after the render that follows a handler, so    *)
(* each action below ends with the effects whose dependencies it changed.  *)
(***************************************************************************)
\* the cleanup of the autosave effect: clearTimeout of the timer its previous
\* run armed, the youngest one; clearing a timer that has fired does nothing
ClearTimeout(ts) == IF ts = <<>> THEN ts ELSE SubSeq(ts, 1, Len(ts) - 1)

\* a variant without the cleanup
AutosaveEffectWithoutCleanup(ts, cur) ==
  Append(ts, [triple |-> cur, replaced |-> FALSE])

\* a variant that arms no timer while one is pending
AutosaveEffectKeepingPending(ts, cur) ==
  IF ts = <<>> THEN <<[triple |-> cur, replaced |-> FALSE]>> ELSE ts

\* a run of the autosave effect after a render in which form, sectionOrder
\* or sectionVisibility changed: the cleanup of the previous run, then
\* setTimeout of a closure over the three values of this render; replaced
\* records that the cleanup cancelled a pending timer
AutosaveEffect(ts, cur) ==
  Append(ClearTimeout(ts), [triple |-> cur, replaced |-> ts # <<>>])

\* a parsed payload sets at least one of the three state cells
Applies(content) ==
  /\ content.kind = "json"
  /\ \/ content.form # <<>>
     \/ content.sectionOrder # <<>>
     \/ content.sectionVisibility # <<>>

\* a run of the keyword effect after a render: stopWords is a new Set in
\* every render, so the effect runs after each one
KeywordEffect ==
  /\ missingKeywords' = MissingKeywords(jobDescription', form')
  /\ effects' = [due |-> TRUE, ref |-> effects.ref]

\* stopWords is built by new Set(...) in the component body, so every render
\* holds a Set that no earlier render held
StopWordsIsNewObject == TRUE

\* the comparison of the dependency array [jobDescription, form, stopWords]
\* of the keyword effect between two renders
DepsChanged(jdOld, jdNew, formOld, formNew) ==
  \/ jdOld # jdNew
  \/ formOld # formNew
  \/ StopWordsIsNewObject

(***************************************************************************)
(* Events.  Each action is one event handler run to completion; last       *)
(* records the handler and its arguments.                                  *)
(***************************************************************************)
Current == Triple(form, sectionOrder, sectionVisibility)

\* the step whose panel renders the input of a scalar field
StepOfField(name) ==
  CASE name \in {"firstName", "lastName", "title", "email", "countryCode",
                 "phone", "linkedin", "website"} -> 0
    [] name = "summary" -> 1
    [] OTHER -> 4

\* a variant in which the restore does not re-run the autosave effect, so
\* that the timer armed by the initial render stays
MountKeepingInitialTimer ==
  /\ ~mounted
  /\ mounted' = TRUE
  /\ LET new == Deserialize(storage, Current)
     IN  /\ form' = new.form
         /\ sectionOrder' = new.sectionOrder
         /\ sectionVisibility' = new.sectionVisibility
  /\ last' = [op |-> "mount"]
  /\ UNCHANGED <<step, errors, storage, reader, imageReader, expSugToggles, jobDescription>>
  /\ timers' = AutosaveEffect(timers, Current)
  /\ KeywordEffect

\* the restore effect, run once after the first render
Mount ==
  /\ ~mounted
  /\ mounted' = TRUE
  /\ LET new == Deserialize(storage, Current)
     IN  /\ form' = new.form
         /\ sectionOrder' = new.sectionOrder
         /\ sectionVisibility' = new.sectionVisibility
  /\ last' = [op |-> "mount"]
  /\ UNCHANGED <<step, errors, storage, reader, imageReader, expSugToggles, jobDescription>>
  /\ timers' = LET first == AutosaveEffect(timers, Current)
                IN  IF Applies(storage) THEN AutosaveEffect(first, Current')
                                        ELSE first
  /\ KeywordEffect

HandleChange(name, value) ==
  /\ mounted
  /\ step = StepOfField(name)
  /\ form' = handleChange(form, name, value)
  /\ errors' = [k \in DOMAIN errors \cup {name} |->
                  IF k = name THEN validateField(name, value) ELSE errors[k]]
  /\ last' = [op |-> "change"]
  /\ UNCHANGED <<step, sectionOrder, sectionVisibility, storage,
               mounted, reader, imageReader, expSugToggles, jobDescription>>
  /\ timers' = AutosaveEffect(timers, Current')
  /\ KeywordEffect

AddEducation ==
  /\ mounted /\ step = 2
  /\ Len(form.educationList) < MaxEntries
  /\ form' = addEducation(form)
  /\ last' = [op |-> "addEducation"]
  /\ UNCHANGED <<step, errors, sectionOrder, sectionVisibility,
               storage, mounted, reader, imageReader, expSugToggles, jobDescription>>
  /\ timers' = AutosaveEffect(timers, Current')
  /\ KeywordEffect

RemoveEducation(index) ==
  /\ mounted /\ step = 2
  /\ index \in 0..(Len(form.educationList) - 1)
  /\ form' = removeEducation(form, index)
  /\ last' = [op |-> "removeEducation"]
  /\ UNCHANGED <<step, errors, sectionOrder, sectionVisibility,
               storage, mounted, reader, imageReader, expSugToggles, jobDescription>>
  /\ timers' = AutosaveEffect(timers, Current')
  /\ KeywordEffect

AddExperience ==
  /\ mounted /\ step = 3
  /\ Len(form.experienceList) < MaxEntries
  /\ form' = addExperience(form)
  /\ last' = [op |-> "addExperience"]
  /\ expSugToggles' = Append(expSugToggles, FALSE)
  /\ UNCHANGED <<step, errors, sectionOrder, sectionVisibility,
               storage, mounted, reader, imageReader, jobDescription>>
  /\ timers' = AutosaveEffect(timers, Current')
  /\ KeywordEffect

RemoveExperience(index) ==
  /\ mounted /\ step = 3
  /\ index \in 0..(Len(form.experienceList) - 1)
  /\ form' = removeExperience(form, index)
  /\ last' = [op |-> "removeExperience"]
  /\ expSugToggles' = RemoveAt(expSugToggles, index)
  /\ UNCHANGED <<step, errors, sectionOrder, sectionVisibility,
               storage, mounted, reader, imageReader, jobDescription>>
  /\ timers' = AutosaveEffect(timers, Current')
  /\ KeywordEffect

\* an input of a row of the education list
UpdateEducation(index, key, value) ==
  /\ mounted /\ step = 2
  /\ index \in 0..(Len(form.educationList) - 1)
  /\ form' = updateEducation(form, index, key, value)
  /\ last' = [op |-> "updateEducation"]
  /\ UNCHANGED <<step, errors, sectionOrder, sectionVisibility, storage,
               mounted, reader, imageReader, expSugToggles, jobDescription>>
  /\ timers' = AutosaveEffect(timers, Current')
  /\ KeywordEffect

\* an arrow of a row of the education list: the up arrow of the first row and the
\* down arrow of the last row are disabled
MoveEducation(index, direction) ==
  /\ mounted /\ step = 2
  /\ index \in 0..(Len(form.educationList) - 1)
  /\ ~(direction = -1 /\ index = 0)
  /\ ~(direction = 1 /\ index = Len(form.educationList) - 1)
  /\ form' = moveEducationEntry(form, index, direction)
  /\ last' = [op |-> "moveEducationEntry"]
  /\ UNCHANGED <<step, errors, sectionOrder, sectionVisibility, storage,
               mounted, reader, imageReader, expSugToggles, jobDescription>>
  /\ timers' = AutosaveEffect(timers, Current')
  /\ KeywordEffect

\* an input of a row of the experience list
UpdateExperience(index, key, value) ==
  /\ mounted /\ step = 3
  /\ index \in 0..(Len(form.experienceList) - 1)
  /\ form' = updateExperience(form, index, key, value)
  /\ last' = [op |-> "updateExperience"]
  /\ UNCHANGED <<step, errors, sectionOrder, sectionVisibility, storage,
               mounted, reader, imageReader, expSugToggles, jobDescription>>
  /\ timers' = AutosaveEffect(timers, Current')
  /\ KeywordEffect

\* an arrow of a row of the experience list: the up arrow of the first row and the
\* down arrow of the last row are disabled
MoveExperience(index, direction) ==
  /\ mounted /\ step = 3
  /\ index \in 0..(Len(form.experienceList) - 1)
  /\ ~(direction = -1 /\ index = 0)
  /\ ~(direction = 1 /\ index = Len(form.experienceList) - 1)
  /\ form' = moveExperienceEntry(form, index, direction)
  /\ last' = [op |-> "moveExperienceEntry"]
  /\ expSugToggles' = moveExpSugToggle(expSugToggles, index, direction)
  /\ UNCHANGED <<step, errors, sectionOrder, sectionVisibility, storage,
               mounted, reader, imageReader, jobDescription>>
  /\ timers' = AutosaveEffect(timers, Current')
  /\ KeywordEffect

AddLanguage ==
  /\ mounted /\ step = 4
  /\ Len(form.languagesList) < MaxEntries
  /\ form' = addLanguage(form)
  /\ last' = [op |-> "addLanguage"]
  /\ UNCHANGED <<step, errors, sectionOrder, sectionVisibility, storage,
               mounted, reader, imageReader, expSugToggles, jobDescription>>
  /\ timers' = AutosaveEffect(timers, Current')
  /\ KeywordEffect

\* an input of a row of the languages list
UpdateLanguage(index, key, value) ==
  /\ mounted /\ step = 4
  /\ index \in 0..(Len(form.languagesList) - 1)
  /\ form' = updateLanguage(form, index, key, value)
  /\ last' = [op |-> "updateLanguage"]
  /\ UNCHANGED <<step, errors, sectionOrder, sectionVisibility, storage,
               mounted, reader, imageReader, expSugToggles, jobDescription>>
  /\ timers' = AutosaveEffect(timers, Current')
  /\ KeywordEffect

RemoveLanguage(index) ==
  /\ mounted /\ step = 4
  /\ index \in 0..(Len(form.languagesList) - 1)
  /\ form' = removeLanguage(form, index)
  /\ last' = [op |-> "removeLanguage", index |-> index]
  /\ UNCHANGED <<step, errors, sectionOrder, sectionVisibility, storage,
               mounted, reader, imageReader, expSugToggles, jobDescription>>
  /\ timers' = AutosaveEffect(timers, Current')
  /\ KeywordEffect

AddProject ==
  /\ mounted /\ step = 4
  /\ Len(form.projectsList) < MaxEntries
  /\ form' = addProject(form)
  /\ last' = [op |-> "addProject"]
  /\ UNCHANGED <<step, errors, sectionOrder, sectionVisibility, storage,
               mounted, reader, imageReader, expSugToggles, jobDescription>>
  /\ timers' = AutosaveEffect(timers, Current')
  /\ KeywordEffect

\* an input of a row of the projects list
UpdateProject(index, key, value) ==
  /\ mounted /\ step = 4
  /\ index \in 0..(Len(form.projectsList) - 1)
  /\ form' = updateProject(form, index, key, value)
  /\ last' = [op |-> "updateProject"]
  /\ UNCHANGED <<step, errors, sectionOrder, sectionVisibility, storage,
               mounted, reader, imageReader, expSugToggles, jobDescription>>
  /\ timers' = AutosaveEffect(timers, Current')
  /\ KeywordEffect

RemoveProject(index) ==
  /\ mounted /\ step = 4
  /\ index \in 0..(Len(form.projectsList) - 1)
  /\ form' = removeProject(form, index)
  /\ last' = [op |-> "removeProject", index |-> index]
  /\ UNCHANGED <<step, errors, sectionOrder, sectionVisibility, storage,
               mounted, reader, imageReader, expSugToggles, jobDescription>>
  /\ timers' = AutosaveEffect(timers, Current')
  /\ KeywordEffect

\* an arrow of a row of the projects list: the up arrow of the first row and the
\* down arrow of the last row are disabled
MoveProject(index, direction) ==
  /\ mounted /\ step = 4
  /\ index \in 0..(Len(form.projectsList) - 1)
  /\ ~(direction = -1 /\ index = 0)
  /\ ~(direction = 1 /\ index = Len(form.projectsList) - 1)
  /\ form' = moveProjectEntry(form, index, direction)
  /\ last' = [op |-> "moveProjectEntry"]
  /\ UNCHANGED <<step, errors, sectionOrder, sectionVisibility, storage,
               mounted, reader, imageReader, expSugToggles, jobDescription>>
  /\ timers' = AutosaveEffect(timers, Current')
  /\ KeywordEffect

AddCertification ==
  /\ mounted /\ step = 4
  /\ Len(form.certificationsList) < MaxEntries
  /\ form' = addCertification(form)
  /\ last' = [op |-> "addCertification"]
  /\ UNCHANGED <<step, errors, sectionOrder, sectionVisibility, storage,
               mounted, reader, imageReader, expSugToggles, jobDescription>>
  /\ timers' = AutosaveEffect(timers, Current')
  /\ KeywordEffect

\* an input of a row of the certifications list
UpdateCertification(index, key, value) ==
  /\ mounted /\ step = 4
  /\ index \in 0..(Len(form.certificationsList) - 1)
  /\ form' = updateCertification(form, index, key, value)
  /\ last' = [op |-> "updateCertification"]
  /\ UNCHANGED <<step, errors, sectionOrder, sectionVisibility, storage,
               mounted, reader, imageReader, expSugToggles, jobDescription>>
  /\ timers' = AutosaveEffect(timers, Current')
  /\ KeywordEffect

RemoveCertification(index) ==
  /\ mounted /\ step = 4
  /\ index \in 0..(Len(form.certificationsList) - 1)
  /\ form' = removeCertification(form, index)
  /\ last' = [op |-> "removeCertification", index |-> index]
  /\ UNCHANGED <<step, errors, sectionOrder, sectionVisibility, storage,
               mounted, reader, imageReader, expSugToggles, jobDescription>>
  /\ timers' = AutosaveEffect(timers, Current')
  /\ KeywordEffect

\* an arrow of a row of the certifications list: the up arrow of the first row and the
\* down arrow of the last row are disabled
MoveCertification(index, direction) ==
  /\ mounted /\ step = 4
  /\ index \in 0..(Len(form.certificationsList) - 1)
  /\ ~(direction = -1 /\ index = 0)
  /\ ~(direction = 1 /\ index = Len(form.certificationsList) - 1)
  /\ form' = moveCertificationEntry(form, index, direction)
  /\ last' = [op |-> "moveCertificationEntry"]
  /\ UNCHANGED <<step, errors, sectionOrder, sectionVisibility, storage,
               mounted, reader, imageReader, expSugToggles, jobDescription>>
  /\ timers' = AutosaveEffect(timers, Current')
  /\ KeywordEffect

\* Enter in the skill input, or a click on a suggestion; skill is the text
\* of the input (the newSkill cell, cleared afterwards) or the suggestion
AddSkill(skill) ==
  /\ mounted /\ step = 4
  /\ Len(form.skillsList) < MaxEntries
  /\ form' = addSkill(form, skill)
  /\ last' = [op |-> "addSkill", arg |-> skill]
  /\ UNCHANGED <<step, errors, sectionOrder, sectionVisibility,
               storage, mounted, reader, imageReader, expSugToggles, jobDescription>>
  /\ timers' = IF form' = form THEN timers
                               ELSE AutosaveEffect(timers, Current')
  /\ KeywordEffect

RemoveSkill(index) ==
  /\ mounted /\ step = 4
  /\ index \in 0..(Len(form.skillsList) - 1)
  /\ form' = removeSkill(form, index)
  /\ last' = [op |-> "removeSkill"]
  /\ UNCHANGED <<step, errors, sectionOrder, sectionVisibility,
               storage, mounted, reader, imageReader, expSugToggles, jobDescription>>
  /\ timers' = AutosaveEffect(timers, Current')
  /\ KeywordEffect

\* Enter in the hobby input, or a click on a suggestion
AddHobby(hobby) ==
  /\ mounted /\ step = 4
  /\ Len(form.hobbiesList) < MaxEntries
  /\ form' = addHobby(form, hobby)
  /\ last' = [op |-> "addHobby", arg |-> hobby]
  /\ UNCHANGED <<step, errors, sectionOrder, sectionVisibility,
               storage, mounted, reader, imageReader, expSugToggles, jobDescription>>
  /\ timers' = IF form' = form THEN timers
                               ELSE AutosaveEffect(timers, Current')
  /\ KeywordEffect

RemoveHobby(index) ==
  /\ mounted /\ step = 4
  /\ index \in 0..(Len(form.hobbiesList) - 1)
  /\ form' = removeHobby(form, index)
  /\ last' = [op |-> "removeHobby"]
  /\ UNCHANGED <<step, errors, sectionOrder, sectionVisibility,
               storage, mounted, reader, imageReader, expSugToggles, jobDescription>>
  /\ timers' = AutosaveEffect(timers, Current')
  /\ KeywordEffect

\* an arrow of the reorder list: the up arrow of the first row and the down
\* arrow of the last row are disabled
MoveSection(index, direction) ==
  /\ mounted /\ step = 4
  /\ index \in 0..(Len(sectionOrder) - 1)
  /\ ~(direction = -1 /\ index = 0)
  /\ ~(direction = 1 /\ index = Len(sectionOrder) - 1)
  /\ sectionOrder' = moveSection(sectionOrder, index, direction)
  /\ last' = [op |-> "moveSection"]
  /\ UNCHANGED <<form, step, errors, sectionVisibility,
               storage, mounted, reader, imageReader, expSugToggles, jobDescription>>
  /\ timers' = AutosaveEffect(timers, Current')
  /\ KeywordEffect

\* a checkbox of the reorder list: [sec]: !prev[sec], and !undefined is true
ToggleVisibility(index) ==
  /\ mounted /\ step = 4
  /\ index \in 0..(Len(sectionOrder) - 1)
  /\ LET sec == sectionOrder[index + 1]
         old == IF sec \in DOMAIN sectionVisibility
                  THEN sectionVisibility[sec] ELSE FALSE
     IN  sectionVisibility' =
           [k \in DOMAIN sectionVisibility \cup {sec} |->
              IF k = sec THEN ~old ELSE sectionVisibility[k]]
  /\ last' = [op |-> "toggleVisibility"]
  /\ UNCHANGED <<form, step, errors, sectionOrder,
               storage, mounted, reader, imageReader, expSugToggles, jobDescription>>
  /\ timers' = AutosaveEffect(timers, Current')
  /\ KeywordEffect

\* the Next / Preview button
NextButton ==
  /\ mounted
  /\ NextButtonShown(step)
  /\ ~isNextDisabled(form, errors, step)
  /\ step' = nextStep(step)
  /\ last' = [op |-> "next"]
  /\ UNCHANGED <<form, errors, sectionOrder, sectionVisibility, storage,
               mounted, reader, imageReader, expSugToggles, timers, jobDescription>>
  /\ KeywordEffect

\* the keydown handler on Ctrl+Enter
CtrlEnter ==
  /\ mounted
  /\ ~isNextDisabled(form, errors, step) /\ step < 5
  /\ step' = nextStep(step)
  /\ last' = [op |-> "ctrlEnter"]
  /\ UNCHANGED <<form, errors, sectionOrder, sectionVisibility, storage,
               mounted, reader, imageReader, expSugToggles, timers, jobDescription>>
  /\ KeywordEffect

\* the Back button
BackButton ==
  /\ mounted
  /\ BackButtonShown(step)
  /\ step' = prevStep(step)
  /\ last' = [op |-> "back"]
  /\ UNCHANGED <<form, errors, sectionOrder, sectionVisibility, storage,
               mounted, reader, imageReader, expSugToggles, timers, jobDescription>>
  /\ KeywordEffect

\* the Reset Form button of the preview step
ResetAll ==
  /\ mounted /\ step = 5
  /\ form' = initialForm
  /\ sectionOrder' = resetSectionOrder
  /\ sectionVisibility' = resetSectionVisibility
  /\ errors' = noErrors
  /\ step' = 0
  /\ last' = [op |-> "reset"]
  /\ expSugToggles' = <<>>
  /\ UNCHANGED <<storage, mounted, reader, imageReader, jobDescription>>
  /\ timers' = AutosaveEffect(timers, Current')
  /\ KeywordEffect

\* the hidden file input of the preview step: a FileReader starts reading
\* the chosen file; the model holds one read in flight at a time
ImportJSON(file) ==
  /\ mounted /\ step = 5
  /\ reader = <<>>
  /\ reader' = <<file>>
  /\ last' = [op |-> "importJSON"]
  /\ UNCHANGED <<form, step, errors, sectionOrder, sectionVisibility,
               storage, mounted, imageReader, expSugToggles, timers,
               jobDescription>>
  /\ KeywordEffect

\* reader.onload of importJSON
ImportLoaded ==
  /\ reader # <<>>
  /\ LET new == Deserialize(reader[1], Current)
     IN  /\ form' = new.form
         /\ sectionOrder' = new.sectionOrder
         /\ sectionVisibility' = new.sectionVisibility
  /\ reader' = <<>>
  /\ last' = [op |-> "importLoaded", file |-> reader[1]]
  /\ UNCHANGED <<step, errors, storage, mounted, imageReader,
               expSugToggles, jobDescription>>
  /\ timers' = IF Applies(reader[1]) THEN AutosaveEffect(timers, Current')
                                      ELSE timers
  /\ KeywordEffect

\* the Profile Photo input of the first step: no file chosen returns at
\* once, otherwise a FileReader starts reading the file as a data URL; the
\* model holds one read in flight at a time
handleImageUpload(files) ==
  /\ mounted /\ step = 0
  /\ files # <<>>
  /\ imageReader = <<>>
  /\ imageReader' = <<files[1]>>
  /\ last' = [op |-> "handleImageUpload"]
  /\ UNCHANGED <<form, step, errors, sectionOrder, sectionVisibility,
               storage, mounted, reader, expSugToggles, timers,
               jobDescription, missingKeywords, effects>>

\* reader.onload of handleImageUpload: the result of readAsDataURL is a
\* string, which becomes the profile image
ImageLoaded ==
  /\ imageReader # <<>>
  /\ form' = [form EXCEPT !.profileImage = imageReader[1]]
  /\ imageReader' = <<>>
  /\ last' = [op |-> "imageLoaded"]
  /\ UNCHANGED <<step, errors, sectionOrder, sectionVisibility, storage,
               mounted, reader, expSugToggles, jobDescription>>
  /\ timers' = AutosaveEffect(timers, Current')
  /\ KeywordEffect

\* the job description textarea of the preview step
SetJobDescription(text) ==
  /\ mounted /\ step = 5
  /\ jobDescription' = text
  /\ last' = [op |-> "setJobDescription"]
  /\ UNCHANGED <<form, step, errors, sectionOrder, sectionVisibility,
               storage, mounted, reader, imageReader, expSugToggles, timers>>
  /\ KeywordEffect

\* the render that setMissingKeywords of the keyword effect asked for: the
\* array it stored is a new one, so the component renders again with the same
\* job description and document; the effect runs again when its dependencies
\* differ from those of the render before, and stores one more new array
KeywordRerender ==
  /\ mounted
  /\ effects.due
  /\ IF DepsChanged(jobDescription, jobDescription, form, form)
       THEN /\ missingKeywords' = MissingKeywords(jobDescription, form)
            /\ effects' = [due |-> TRUE, ref |-> 1 - effects.ref]
       ELSE /\ effects' = [effects EXCEPT !.due = FALSE]
            /\ UNCHANGED missingKeywords
  /\ UNCHANGED <<form, step, errors, sectionOrder, sectionVisibility,
               storage, mounted, reader, imageReader, expSugToggles, timers,
               jobDescription, last>>

\* the callback of a pending timer of the autosave effect; setItem may
\* throw (storage full or disabled), which the catch block ignores
AutosaveWrite ==
  /\ timers # <<>>
  /\ \E accepted \in BOOLEAN :
       /\ storage' = IF accepted
                       THEN Serialize(Head(timers).triple.form,
                                      Head(timers).triple.sectionOrder,
                                      Head(timers).triple.sectionVisibility)
                       ELSE storage
       /\ last' = [op |-> "autosaveWrite", accepted |-> accepted,
                   replaced |-> Head(timers).replaced]
  /\ timers' = Tail(timers)
  /\ UNCHANGED <<form, step, errors, sectionOrder, sectionVisibility,
               mounted, reader, imageReader, expSugToggles, jobDescription,
               missingKeywords, effects>>

(***************************************************************************)
(* Inputs: the values typed, the files imported, and the items a session   *)
(* may find in storage                                                     *)
(***************************************************************************)
\* the values typed into a scalar field
FieldInputs(name) ==
  CASE name = "firstName" -> {<<>>, <<"A","l">>}
    [] name = "lastName" -> {<<>>, <<"B","o">>}
    [] name = "title" -> {<<>>, <<"Q","A">>}
    [] name = "email" -> {<<>>, <<"a","@","b",".","c">>, <<"a","@","b">>}
    [] name = "phone" -> {<<>>, <<"1","2">>, <<"1","x">>}
    [] name = "summary" -> {<<>>, <<"H","i">>}
    [] OTHER -> {<<>>}

PersonalFields == {"firstName", "lastName", "title", "email", "phone"}

\* a document as an earlier session left it at step 0: every personal field
\* typed, the email without a top-level domain
formBadEmail ==
  [initialForm EXCEPT !.firstName = <<"A","l">>, !.lastName = <<"B","o">>,
                      !.title = <<"Q","A">>, !.email = <<"a","@","b">>,
                      !.phone = <<"1","2">>]

\* a document as an earlier session left it at the preview step
formComplete ==
  [formBadEmail EXCEPT !.email = <<"a","@","b",".","c">>,
                       !.summary = <<"H","i">>,
                       !.educationList = <<newEducation>>,
                       !.experienceList = <<newExperience>>,
                       !.skillsList = << <<"a">> >>]

\* a section order after two moves, and a visibility map with one section hidden
movedSectionOrder ==
  <<"experience", "education", "projects", "certifications",
    "skills", "hobbies", "languages">>

hiddenHobbies == [defaultSectionVisibility EXCEPT !["hobbies"] = FALSE]

\* an order that is not a permutation of the seven identifiers: the five
\* sections of the page before projects and certifications were added
fiveSectionOrder == <<"education", "experience", "skills", "languages", "hobbies">>

\* a visibility map that covers a subset of the sections
visibilityWithoutExperience ==
  [sec \in SectionIds \ {"experience"} |-> TRUE]

\* the items a session may find under the storage key
StoredItems ==
  { NoItem,
    Serialize(formBadEmail, defaultSectionOrder, defaultSectionVisibility),
    Serialize(formComplete, movedSectionOrder, hiddenHobbies) }

\* the files a user may pick for import
ImportFiles ==
  { Serialize(formComplete, movedSectionOrder, hiddenHobbies),
    Json(<<>>, <<movedSectionOrder>>, <<>>),
    Json(<<initialForm>>, <<>>, <<>>),
    Json(<<>>, <<>>, <<hiddenHobbies>>),
    Json(<<>>, <<fiveSectionOrder>>, <<>>),
    Json(<<>>, <<>>, <<visibilityWithoutExperience>>),
    NotJson }

\* the file lists chosen in the Profile Photo input, each file given by the
\* data URL that readAsDataURL makes of it
ImageFiles ==
  { << <<"d","a","t","a",":","A">> >>,
    << <<"d","a","t","a",":","B">>, <<"d","a","t","a",":","A">> >> }

\* the texts typed into the skill and hobby inputs
SkillInputs == {<<"a">>, <<"A">>, <<" ","a">>, <<" ">>}

\* a job description, and a document whose summary names one of its keywords
jdPython ==
  <<"L","o","o","k","i","n","g"," ","f","o","r"," ","a"," ","P","y",
    "t","h","o","n"," ","d","e","v","e","l","o","p","e","r"," ","w",
    "i","t","h"," ","A","W","S"," ","e","x","p","e","r","i","e","n",
    "c","e">>

\* a job description with leading and trailing blanks, punctuation, a
\* repeated word and a stop word
jdJava ==
  <<" ","J","a","v","a",","," ","j","a","v","a",";"," ","s","c","r",
    "i","p","t","-","w","r","i","t","e","r","s"," ","f","r","o","m",
    " ","T","e","a","m","s"," ">>

JobDescriptions == {<<>>, <<" "," ">>, jdPython, jdJava}

formPython ==
  [formComplete EXCEPT
     !.summary = <<"I"," ","u","s","e"," ","P","y","t","h","o","n">>,
     !.skillsList = << <<"J","a","v","a","S","c","r","i","p","t">> >>,
     !.experienceList = <<[role |-> <<"D","e","v">>, company |-> <<>>,
                           period |-> <<>>, description |-> <<"T","e","a","m","s">>]>>,
     !.educationList = <<[institution |-> <<"M","I","T">>, degree |-> <<"B","S","c">>,
                          year |-> <<>>]>>]

\* a document whose project and certification lists hold distinct entries
formLists ==
  [formComplete EXCEPT
     !.projectsList =
        <<[title |-> <<"P","1">>, description |-> <<>>, url |-> <<>>],
          [title |-> <<"P","2">>, description |-> <<>>, url |-> <<>>],
          [title |-> <<"P","3">>, description |-> <<>>, url |-> <<>>]>>,
     !.certificationsList =
        <<[name |-> <<"C","1">>, issuer |-> <<>>, year |-> <<>>],
          [name |-> <<"C","2">>, issuer |-> <<>>, year |-> <<>>]>>]

\* the values typed into the two name fields: empty, blank, letters with an
\* apostrophe, a hyphen or a blank, and values with a digit or another symbol
NameInputs ==
  { <<>>, <<" ">>, <<"A","l">>, <<"O","'","N">>, <<"A","-","b">>,
    <<"A"," ","b">>, <<" ","A">>, <<"A","1">>, <<"A","_">>, <<"A",".">>,
    <<"1">> }

(***************************************************************************)
(* Specifications                                                          *)
(***************************************************************************)
InitWith(items) ==
  /\ form = initialForm
  /\ step = 0
  /\ errors = noErrors
  /\ sectionOrder = defaultSectionOrder
  /\ sectionVisibility = defaultSectionVisibility
  /\ storage \in items
  /\ mounted = FALSE
  /\ reader = <<>>
  /\ imageReader = <<>>
  /\ expSugToggles = <<>>
  /\ timers = <<>>
  /\ jobDescription = <<>>
  /\ missingKeywords = <<>>
  /\ effects = [due |-> FALSE, ref |-> 0]
  /\ last = [op |-> "init"]

\* the wizard: typing, the entry lists that gate a step, navigation and reset
Init == InitWith(StoredItems)

Next ==
  \/ Mount
  \/ \E name \in PersonalFields \cup {"summary"} :
       \E value \in FieldInputs(name) : HandleChange(name, value)
  \/ AddEducation
  \/ \E index \in 0..MaxEntries : RemoveEducation(index)
  \/ AddExperience
  \/ \E index \in 0..MaxEntries : RemoveExperience(index)
  \/ AddSkill(<<"a">>)
  \/ \E index \in 0..MaxEntries : RemoveSkill(index)
  \/ NextButton
  \/ CtrlEnter
  \/ BackButton
  \/ ResetAll

Spec == Init /\ [][Next]_vars

\* export, import, restore, reset, the reorder list and navigation, with the
\* edits of the summary and of the skills; the arrows and checkboxes used
\* are those of the first and of the last row
PersistItems ==
  { Serialize(formComplete, movedSectionOrder, hiddenHobbies),
    Json(<<formComplete>>, <<fiveSectionOrder>>, <<>>),
    NotJson }

InitPersist == InitWith(PersistItems)

NextPersist ==
  \/ Mount
  \/ \E value \in FieldInputs("summary") : HandleChange("summary", value)
  \/ AddSkill(<<"a">>)
  \/ \E index \in 0..MaxEntries : RemoveSkill(index)
  \/ \E index \in {0, Len(sectionOrder) - 1} :
       \E direction \in {-1, 1} : MoveSection(index, direction)
  \/ \E index \in {0, Len(sectionOrder) - 1} : ToggleVisibility(index)
  \/ NextButton
  \/ CtrlEnter
  \/ BackButton
  \/ ResetAll
  \/ \E file \in ImportFiles : ImportJSON(file)
  \/ ImportLoaded

SpecPersist == InitPersist /\ [][NextPersist]_vars

\* the skills and hobbies inputs of step 4, from a document whose first four
\* steps are complete and whose two lists are empty
formBeforeSkills == [formComplete EXCEPT !.skillsList = <<>>]

InitSkills ==
  InitWith({Serialize(formBeforeSkills, defaultSectionOrder, defaultSectionVisibility)})

NextSkills ==
  \/ Mount
  \/ NextButton
  \/ BackButton
  \/ \E skill \in SkillInputs : AddSkill(skill)
  \/ \E index \in 0..MaxEntries : RemoveSkill(index)
  \/ \E hobby \in SkillInputs : AddHobby(hobby)
  \/ \E index \in 0..MaxEntries : RemoveHobby(index)

SpecSkills == InitSkills /\ [][NextSkills]_vars

\* the debounced autosave: edits of the first name, of the summary and of
\* the first checkbox, navigation, reset, and the timer callback.  A pending
\* timer fires once its delay has elapsed and only clearTimeout removes it,
\* hence the weak fairness of the callback.
AutosaveItems ==
  { NoItem, Serialize(formComplete, movedSectionOrder, hiddenHobbies) }

InitAutosave == InitWith(AutosaveItems)

NextAutosave ==
  \/ Mount
  \/ \E name \in {"firstName", "summary"} :
       \E value \in FieldInputs(name) : HandleChange(name, value)
  \/ ToggleVisibility(0)
  \/ NextButton
  \/ BackButton
  \/ ResetAll
  \/ AutosaveWrite

SpecAutosave ==
  InitAutosave /\ [][NextAutosave]_vars /\ WF_vars(AutosaveWrite)

\* the keyword analysis of the preview step: the job description textarea,
\* with the edits of the summary and of the skills, navigation and reset
KeywordItems ==
  { Serialize(formComplete, defaultSectionOrder, defaultSectionVisibility),
    Serialize(formPython, defaultSectionOrder, defaultSectionVisibility) }

InitKeywords == InitWith(KeywordItems)

NextKeywords ==
  \/ Mount
  \/ \E value \in FieldInputs("summary") : HandleChange("summary", value)
  \/ AddSkill(<<"W","r","i","t","e","r","s">>)
  \/ \E index \in 0..MaxEntries : RemoveSkill(index)
  \/ \E text \in JobDescriptions : SetJobDescription(text)
  \/ NextButton
  \/ BackButton
  \/ ResetAll

SpecKeywords == InitKeywords /\ [][NextKeywords]_vars

\* the keyword analysis with the renders its effect asks for
NextRenders ==
  \/ NextKeywords
  \/ KeywordRerender

\* a step of the effects cell while a render is due; KeywordRerender is the
\* only action of NextRenders that takes such a step
RenderScheduled ==
  /\ mounted
  /\ effects.due
  /\ effects' \in [due : BOOLEAN, ref : 0..1]

\* React runs a render it has scheduled, so the render is weakly fair
SpecRenders ==
  InitKeywords /\ [][NextRenders]_vars /\ WF_effects(RenderScheduled)

\* the reads of a FileReader, of importJSON and of handleImageUpload, with
\* the events that may run while a read is in flight
DeferredItems ==
  { Serialize(formComplete, defaultSectionOrder, defaultSectionVisibility) }

DeferredFiles ==
  { Serialize(formComplete, movedSectionOrder, hiddenHobbies), NotJson }

InitDeferred == InitWith(DeferredItems)

NextDeferred ==
  \/ Mount
  \/ \E value \in FieldInputs("summary") : HandleChange("summary", value)
  \/ \E files \in ImageFiles : handleImageUpload(files)
  \/ ImageLoaded
  \/ \E file \in DeferredFiles : ImportJSON(file)
  \/ ImportLoaded
  \/ NextButton
  \/ BackButton
  \/ ResetAll

SpecDeferred == InitDeferred /\ [][NextDeferred]_vars

\* the entry lists of steps 2 and 3 with all their handlers, and the arrows
\* of the project and certification rows of step 4, from a document whose
\* project and certification lists are filled
InitLists ==
  InitWith({Serialize(formLists, defaultSectionOrder, defaultSectionVisibility)})

NextLists ==
  \/ Mount
  \/ NextButton
  \/ BackButton
  \/ AddEducation
  \/ \E index \in 0..MaxEntries : UpdateEducation(index, "degree", <<"B">>)
  \/ \E index \in 0..MaxEntries : RemoveEducation(index)
  \/ \E index \in 0..MaxEntries :
       \E direction \in {-1, 1} : MoveEducation(index, direction)
  \/ AddExperience
  \/ \E index \in 0..MaxEntries : UpdateExperience(index, "role", <<"R">>)
  \/ \E index \in 0..MaxEntries : RemoveExperience(index)
  \/ \E index \in 0..MaxEntries :
       \E direction \in {-1, 1} : MoveExperience(index, direction)
  \/ \E index \in DOMAIN form.projectsList :
       \E direction \in {-1, 1} : MoveProject(index - 1, direction)
  \/ \E index \in DOMAIN form.certificationsList :
       \E direction \in {-1, 1} : MoveCertification(index - 1, direction)

SpecLists == InitLists /\ [][NextLists]_vars

\* the project, certification and language lists of step 4 with all their
\* handlers, from a document whose three lists are empty
InitExtras ==
  InitWith({Serialize(formComplete, defaultSectionOrder, defaultSectionVisibility)})

NextExtras ==
  \/ Mount
  \/ NextButton
  \/ BackButton
  \/ AddProject
  \/ \E index \in 0..MaxEntries : UpdateProject(index, "title", <<"T">>)
  \/ \E index \in 0..MaxEntries : RemoveProject(index)
  \/ \E index \in 0..MaxEntries :
       \E direction \in {-1, 1} : MoveProject(index, direction)
  \/ AddCertification
  \/ \E index \in 0..MaxEntries : UpdateCertification(index, "name", <<"N">>)
  \/ \E index \in 0..MaxEntries : RemoveCertification(index)
  \/ \E index \in 0..MaxEntries :
       \E direction \in {-1, 1} : MoveCertification(index, direction)
  \/ AddLanguage
  \/ \E index \in 0..MaxEntries : UpdateLanguage(index, "level", <<"C","1">>)
  \/ \E index \in 0..MaxEntries : RemoveLanguage(index)

SpecExtras == InitExtras /\ [][NextExtras]_vars

\* the two name inputs of step 0, in a session without a stored snapshot
InitNames == InitWith({NoItem})

NextNames ==
  \/ Mount
  \/ \E name \in {"firstName", "lastName"} :
       \E value \in NameInputs : HandleChange(name, value)

SpecNames == InitNames /\ [][NextNames]_vars

(***************************************************************************)
(* Properties                                                              *)
(***************************************************************************)
NonEmpty(str) == Len(str) > 0

\* the completeness predicate of a step, as the specification states it
StepComplete(s, f) ==
  CASE s = 0 -> /\ \A name \in PersonalFields : NonEmpty(f[name])
                /\ \A name \in RequiredErrorKeys : validateField(name, f[name]) = ""
    [] s = 1 -> NonEmpty(f.summary)
    [] s = 2 -> Len(f.educationList) > 0
    [] s = 3 -> Len(f.experienceList) > 0
    [] s = 4 -> Len(f.skillsList) > 0
    [] OTHER -> FALSE

\* forward navigation is open: the Next button is shown and enabled, or
\* Ctrl+Enter advances
ForwardOpen == ENABLED NextButton \/ ENABLED CtrlEnter

\* C1: at step 0, in every reachable state (also one restored from the
\* autosave snapshot), forward navigation is blocked unless the five personal
\* fields are non-empty and the validators accept the current first name,
\* last name, email and phone.
C1_Step0BlockedUnlessValid ==
  (step = 0 /\ ForwardOpen) => StepComplete(0, form)

\* C2: at a step 1..4 the step index advances only if the completeness
\* predicate of that step holds for the document, and nothing advances it
\* from step 5.
C2_ForwardOnlyWhenComplete ==
  [][ (step' > step) =>
        /\ step < 5
        /\ (step \in 1..4 => StepComplete(step, form)) ]_vars

\* forward navigation has advanced the wizard from step 4 to the preview
C2_Witness ==
  /\ last.op \in {"next", "ctrlEnter"}
  /\ step = 5
  /\ StepComplete(4, form)

\* C3: from every step 1..5 the back transition is available to the user;
\* only step 0 has none.
C3_BackFromEveryLaterStep ==
  mounted => ((step \in 1..5) <=> ENABLED BackButton)

\* C4: the step index stays within 0..5; next moves it up by one (or leaves
\* it at 5), back moves it down by one (or leaves it at 0), reset sets it to
\* 0, and edits and imports leave it alone.
C4_StepMovesByOneWithinRange ==
  [][ /\ step \in 0..5 /\ step' \in 0..5
      /\ (last'.op \in {"next", "ctrlEnter"} =>
            (step' = step + 1 \/ (step = 5 /\ step' = 5)))
      /\ (last'.op = "back" =>
            (step' = step - 1 \/ (step = 0 /\ step' = 0)))
      /\ (last'.op \notin {"next", "ctrlEnter", "back", "reset"} =>
            step' = step) ]_vars

\* the preview has been reached by Next after the section order was changed
\* by a move or an import
C4_Witness ==
  /\ last.op = "next"
  /\ step = 5
  /\ sectionOrder # defaultSectionOrder

\* two entries of a list are equal when compared without regard to case
HasCaseInsensitiveDuplicate(list) ==
  \E i, j \in DOMAIN list : i < j /\ ToLower(list[i]) = ToLower(list[j])

\* C5: after any sequence of addSkill / removeSkill and addHobby /
\* removeHobby calls from empty lists, neither list holds two entries that
\* are equal under case-insensitive comparison.
C5_NoCaseInsensitiveDuplicates ==
  /\ ~HasCaseInsensitiveDuplicate(form.skillsList)
  /\ ~HasCaseInsensitiveDuplicate(form.hobbiesList)

\* the number of entries of a list equal to a string, ignoring case
CountIgnoringCase(list, str) ==
  Cardinality({i \in DOMAIN list : ToLower(list[i]) = ToLower(str)})

\* C6: adding a string to a list and then adding it again, in any casing,
\* yields the list that adding it once yields, and that list holds exactly
\* one entry equal to the trimmed string ignoring case.
C6_AddUniqueIdempotent ==
  (mounted /\ step = 4) =>
  \A list \in {form.skillsList, form.hobbiesList} :
    \A v, w \in SkillInputs :
      (ToLower(v) = ToLower(w)) =>
        /\ AddUnique(AddUnique(list, v), w) = AddUnique(list, v)
        /\ (NonEmpty(Trim(v)) =>
              CountIgnoringCase(AddUnique(list, v), Trim(v)) = 1)

IsPermutationOfSections(order) ==
  /\ Len(order) = Cardinality(SectionIds)
  /\ Range(order) = SectionIds

\* C7: the section order is a permutation of the seven section identifiers
\* in every reachable state.
C7_OrderIsPermutation == IsPermutationOfSections(sectionOrder)

\* the states a serialized triple may be read back into
ReadBackTargets ==
  { Triple(initialForm, defaultSectionOrder, defaultSectionVisibility),
    Triple(formComplete, movedSectionOrder, hiddenHobbies),
    Triple(formBadEmail, fiveSectionOrder, defaultSectionVisibility) }

C9_ImportMergesByPresence ==
  [][ (last'.op = "importLoaded" /\ last'.file.kind = "json") =>
        LET file == last'.file
        IN  /\ form' = IF file.form = <<>> THEN form ELSE file.form[1]
            /\ sectionOrder' = IF file.sectionOrder = <<>>
                                 THEN sectionOrder ELSE file.sectionOrder[1]
            /\ sectionVisibility' = IF file.sectionVisibility = <<>>
                                      THEN sectionVisibility
                                      ELSE file.sectionVisibility[1] ]_vars

\* a payload carrying only the section order has been imported over a
\* filled document and a changed visibility map
C9_Witness ==
  /\ last.op = "importLoaded"
  /\ last.file = Json(<<>>, <<movedSectionOrder>>, <<>>)
  /\ sectionOrder = movedSectionOrder
  /\ form = formComplete
  /\ sectionVisibility # defaultSectionVisibility

\* a parsed payload whose values do not have the shape of the state
WrongShape(content) ==
  /\ content.kind = "json"
  /\ \/ /\ content.sectionOrder # <<>>
        /\ ~IsPermutationOfSections(content.sectionOrder[1])
     \/ /\ content.sectionVisibility # <<>>
        /\ DOMAIN content.sectionVisibility[1] # SectionIds
     \/ /\ content.form # <<>>
        /\ DOMAIN content.form[1] # DOMAIN initialForm

\* C10: an import or a restore whose payload parses but has the wrong shape
\* leaves the document, the section order and the visibility map as they were.
C10_WrongShapeIsSwallowed ==
  [][ /\ (last'.op = "importLoaded" /\ WrongShape(last'.file)) =>
           UNCHANGED <<form, sectionOrder, sectionVisibility>>
      /\ (last'.op = "mount" /\ WrongShape(storage)) =>
           UNCHANGED <<form, sectionOrder, sectionVisibility>> ]_vars

\* C11: importing a file that does not parse leaves the document, the section
\* order, the visibility map, the step index and the error map unchanged; no
\* part of the payload is applied.
C11_UnparseableImportChangesNothing ==
  [][ (last'.op = "importLoaded" /\ last'.file.kind = "garbage") =>
        UNCHANGED <<form, sectionOrder, sectionVisibility, step, errors>> ]_vars

\* a file that does not parse has been read over a filled document and a
\* changed section order
C11_Witness ==
  /\ last.op = "importLoaded"
  /\ last.file = NotJson
  /\ form = formComplete
  /\ sectionOrder # defaultSectionOrder
  /\ step = 5

\* C12: at most one autosave write is pending at any time: a change of the
\* document, the order or the visibility map while a write is pending
\* cancels it and arms a new one for the changed state, so that changes in
\* quick succession end in one write, after which none is pending.
C12_OnePendingWrite ==
  [][ /\ Len(timers') <= 1
      /\ (Current' # Current =>
            /\ Len(timers') = 1
            /\ timers'[1].triple = Current')
      /\ (last'.op = "autosaveWrite" => timers' = <<>>) ]_vars

\* a write has happened whose timer had replaced a cancelled one, and it is
\* the only write for the changes before it: storage holds a document that
\* differs from the restored one in two fields
C12_Witness ==
  /\ last.op = "autosaveWrite"
  /\ last.replaced /\ last.accepted
  /\ timers = <<>>
  /\ storage = Serialize([formComplete EXCEPT !.summary = <<>>],
                         movedSectionOrder,
                         [hiddenHobbies EXCEPT !["experience"] = FALSE])

\* C13: once an autosave write is pending it eventually happens, and every
\* write that storage accepts stores the document, order and visibility map
\* current at the moment of the write, never older ones.
C13_WriteStoresCurrentState ==
  /\ []((last.op = "autosaveWrite" /\ last.accepted) =>
          storage = Serialize(form, sectionOrder, sectionVisibility))
  /\ ((timers # <<>>) ~> (last.op = "autosaveWrite"))

\* an accepted write has stored a state that differs from the stored
\* snapshot the session started from and from the defaults
C13_Witness ==
  /\ last.op = "autosaveWrite" /\ last.accepted
  /\ storage = Serialize(form, sectionOrder, sectionVisibility)
  /\ form.firstName = <<>>
  /\ form.summary = <<"H","i">>
  /\ sectionVisibility # hiddenHobbies

\* the entry list behind a section identifier
BackingList(f, sec) ==
  CASE sec = "education" -> f.educationList
    [] sec = "experience" -> f.experienceList
    [] sec = "projects" -> f.projectsList
    [] sec = "certifications" -> f.certificationsList
    [] sec = "skills" -> f.skillsList
    [] sec = "languages" -> f.languagesList
    [] sec = "hobbies" -> f.hobbiesList

\* the sections the specification lets the composer emit
EmittedSections(f, order, vis) ==
  SelectSeq(order, LAMBDA sec :
    /\ sec \in SectionIds
    /\ sec \in DOMAIN vis /\ vis[sec] = TRUE
    /\ BackingList(f, sec) # <<>>)

\* C14: the composed preview is the summary block first, present exactly
\* when the summary is non-empty, followed by the identifiers of the section
\* order, in that order, restricted to those whose visibility entry is true
\* and whose entry list is non-empty; a section without entries is never
\* emitted.
C14_PreviewIsSummaryThenVisibleNonEmpty ==
  LET out == preview(form, sectionOrder, sectionVisibility)
      sections == IF NonEmpty(form.summary) THEN Tail(out) ELSE out
  IN  /\ NonEmpty(form.summary) <=> (out # <<>> /\ out[1] = "summary")
      /\ sections = EmittedSections(form, sectionOrder, sectionVisibility)
      /\ \A sec \in SectionIds :
           BackingList(form, sec) = <<>> => sec \notin Range(out)

\* the preview step shows a document with a summary under a changed order:
\* three sections are emitted in that order, a visible section without
\* entries is left out
C14_Witness ==
  /\ step = 5
  /\ preview(form, sectionOrder, sectionVisibility) =
       <<"summary", "experience", "education", "skills">>
  /\ sectionOrder = movedSectionOrder
  /\ sectionVisibility["projects"] /\ form.projectsList = <<>>

\* C15: a section identifier without an entry in the visibility map counts
\* as visible: the composer emits it when its entry list is non-empty, in
\* agreement with its checkbox, which is shown checked.
C15_MissingVisibilityEntryIsVisible ==
  \A i \in DOMAIN sectionOrder :
    LET sec == sectionOrder[i]
    IN  (sec \in SectionIds /\ sec \notin DOMAIN sectionVisibility) =>
          /\ CheckboxChecked(sectionVisibility, sec)
          /\ (BackingList(form, sec) # <<>> =>
                sec \in Range(preview(form, sectionOrder, sectionVisibility)))

\* the characters a token of a normalized job description consists of
TokenChars == Range(LowerSeq) \cup Digits

\* positions from..to of a lowercased text hold a token: a maximal run of
\* token characters
IsTokenAt(text, from, to) ==
  /\ from <= to
  /\ \A k \in from..to : text[k] \in TokenChars
  /\ (from = 1 \/ text[from - 1] \notin TokenChars)
  /\ (to = Len(text) \/ text[to + 1] \notin TokenChars)

\* the positions at which a word occurs as a token
TokenStarts(text, word) ==
  {from \in 1..Len(text) :
     /\ from + Len(word) - 1 <= Len(text)
     /\ IsTokenAt(text, from, from + Len(word) - 1)
     /\ SubSeq(text, from, from + Len(word) - 1) = word}

Tokens(text) ==
  {SubSeq(text, from, to) : <<from, to>> \in
     {pos \in (1..Len(text)) \X (1..Len(text)) : IsTokenAt(text, pos[1], pos[2])}}

\* the strings of the resume the keywords are looked up in
ResumeParts(f) ==
  {f.summary} \cup Range(f.skillsList) \cup Range(f.hobbiesList)
  \cup UNION {{exp.role, exp.company, exp.description} :
                exp \in Range(f.experienceList)}
  \cup UNION {{edu.degree, edu.institution} : edu \in Range(f.educationList)}

PresentInResume(f, word) ==
  \E part \in ResumeParts(f) : Includes(ToLower(part), word)

FirstOf(set) == CHOOSE x \in set : \A y \in set : x <= y

\* C16: the missing keywords are the tokens of the normalized job
\* description that have more than three characters, are no stop words and
\* are not a substring of the lowercased resume text (summary, skills,
\* hobbies, role, company and description of the experience entries, degree
\* and institution of the education entries), each once, in the order of
\* their first occurrence; a blank job description yields none.
C16_MissingKeywordsAreAbsentTokens ==
  mounted =>
    LET text == ToLower(jobDescription)
        expected == {w \in Tokens(text) :
                       /\ Len(w) > 3
                       /\ w \notin stopWords
                       /\ ~PresentInResume(form, w)}
    IN  /\ Range(missingKeywords) = expected
        /\ \A a, b \in DOMAIN missingKeywords :
             a < b => FirstOf(TokenStarts(text, missingKeywords[a]))
                        < FirstOf(TokenStarts(text, missingKeywords[b]))
        /\ (\A k \in DOMAIN jobDescription : jobDescription[k] \in Whitespace)
             => missingKeywords = <<>>

\* a job description with a repeated word has been typed for a resume that
\* holds two of its words inside a longer word and one in an experience
\* entry: one keyword is missing
C16_Witness ==
  /\ last.op = "setJobDescription"
  /\ jobDescription = jdJava
  /\ form = formPython
  /\ missingKeywords = << <<"w","r","i","t","e","r","s">> >>

\* the job description and the resume of the example
ExampleCase ==
  /\ mounted
  /\ jobDescription = jdPython
  /\ Includes(resumeText(form), <<"p","y","t","h","o","n">>)
  /\ ~Includes(resumeText(form), <<"a","w","s">>)

\* C17: for the job description "Looking for a Python developer with AWS
\* experience" and a resume containing "python" but not "aws", the missing
\* keywords include aws, looking, developer and experience and do not
\* include python.
C17_ExampleIncludesAws ==
  ExampleCase =>
    /\ { <<"a","w","s">>, <<"l","o","o","k","i","n","g">>,
         <<"d","e","v","e","l","o","p","e","r">>,
         <<"e","x","p","e","r","i","e","n","c","e">> }
         \subseteq Range(missingKeywords)
    /\ <<"p","y","t","h","o","n">> \notin Range(missingKeywords)

\* C17, amended: for that job description and resume the missing keywords
\* include looking, developer and experience and include neither python,
\* which the resume contains, nor aws, which has three characters.
C17_ExampleWithoutAws ==
  ExampleCase =>
    /\ { <<"l","o","o","k","i","n","g">>,
         <<"d","e","v","e","l","o","p","e","r">>,
         <<"e","x","p","e","r","i","e","n","c","e">> }
         \subseteq Range(missingKeywords)
    /\ <<"p","y","t","h","o","n">> \notin Range(missingKeywords)
    /\ <<"a","w","s">> \notin Range(missingKeywords)

\* the job description of the example has been typed for the resume that
\* names Python
C17_Witness ==
  /\ ExampleCase
  /\ last.op = "setJobDescription"
  /\ form = formPython
  /\ missingKeywords = << <<"l","o","o","k","i","n","g">>,
                          <<"d","e","v","e","l","o","p","e","r">>,
                          <<"e","x","p","e","r","i","e","n","c","e">> >>

\* the list with the entries at 0-based positions i and j exchanged
Swap(list, i, j) ==
  [k \in DOMAIN list |->
     IF k = i + 1 THEN list[j + 1] ELSE IF k = j + 1 THEN list[i + 1] ELSE list[k]]

\* a move as the specification states it
Moved(list, i, d) ==
  IF i + d \in 0..(Len(list) - 1) THEN Swap(list, i, i + d) ELSE list

InRange(list) == 0..(Len(list) - 1)

\* C18: a move of the entry at an in-range index i by d exchanges it with
\* the entry at i + d and changes nothing else when i + d is in range, and
\* returns the list unchanged when i + d is out of range; for the education,
\* experience, project and certification lists and for the section order.
C18_MoveSwapsNeighbours ==
  mounted =>
    \A d \in {-1, 1} :
      /\ \A i \in InRange(form.educationList) :
           moveEducationEntry(form, i, d) =
             [form EXCEPT !.educationList = Moved(@, i, d)]
      /\ \A i \in InRange(form.experienceList) :
           moveExperienceEntry(form, i, d) =
             [form EXCEPT !.experienceList = Moved(@, i, d)]
      /\ \A i \in InRange(form.projectsList) :
           moveProjectEntry(form, i, d) =
             [form EXCEPT !.projectsList = Moved(@, i, d)]
      /\ \A i \in InRange(form.certificationsList) :
           moveCertificationEntry(form, i, d) =
             [form EXCEPT !.certificationsList = Moved(@, i, d)]
      /\ \A i \in InRange(sectionOrder) :
           moveSection(sectionOrder, i, d) = Moved(sectionOrder, i, d)

\* an arrow has moved a project: the three projects of the document are in
\* another order, the other lists as they were
C18_Witness ==
  /\ last.op = "moveProjectEntry"
  /\ form.projectsList = Swap(formLists.projectsList, 1, 2)
  /\ form.certificationsList = formLists.certificationsList
  /\ Len(form.educationList) > 1
  /\ form.educationList[1] # form.educationList[2]

\* the indices next to the range of a list
OutOfRange(list) == {-1, Len(list), Len(list) + 1}

\* C19: every list operation given an index outside 0..len-1 is a no-op:
\* update, remove and move return the list unchanged, also for the index
\* len or -1 with a direction that points back into the list.
C19_OutOfRangeIndexIsNoOp ==
  mounted =>
    /\ \A i \in OutOfRange(form.educationList) :
         /\ updateEducation(form, i, "degree", <<"B">>) = form
         /\ removeEducation(form, i) = form
         /\ \A d \in {-1, 1} : moveEducationEntry(form, i, d) = form
    /\ \A i \in OutOfRange(form.experienceList) :
         /\ updateExperience(form, i, "role", <<"R">>) = form
         /\ removeExperience(form, i) = form
         /\ \A d \in {-1, 1} : moveExperienceEntry(form, i, d) = form
    /\ \A i \in OutOfRange(form.projectsList) :
         /\ updateProject(form, i, "title", <<"T">>) = form
         /\ removeProject(form, i) = form
         /\ \A d \in {-1, 1} : moveProjectEntry(form, i, d) = form
    /\ \A i \in OutOfRange(form.certificationsList) :
         /\ updateCertification(form, i, "name", <<"N">>) = form
         /\ removeCertification(form, i) = form
         /\ \A d \in {-1, 1} : moveCertificationEntry(form, i, d) = form
    /\ \A i \in OutOfRange(form.languagesList) :
         /\ updateLanguage(form, i, "level", <<"C","1">>) = form
         /\ removeLanguage(form, i) = form

\* C20: adding an entry to a list and then removing the entry at the index
\* that was the length of the list yields the list again; for the education,
\* experience, project, certification and language lists.
C20_RemoveUndoesAdd ==
  mounted =>
    /\ removeEducation(addEducation(form), Len(form.educationList)) = form
    /\ removeExperience(addExperience(form), Len(form.experienceList)) = form
    /\ removeProject(addProject(form), Len(form.projectsList)) = form
    /\ removeCertification(addCertification(form),
                           Len(form.certificationsList)) = form
    /\ removeLanguage(addLanguage(form), Len(form.languagesList)) = form

\* the last row of the project list has been removed, leaving a project
\* whose title had been typed
C20_Witness ==
  /\ last.op = "removeProject"
  /\ last.index = Len(form.projectsList)
  /\ form.projectsList = <<[newProject EXCEPT !.title = <<"T">>]>>

\* new is old with entries added at the end
Extends(new, old) ==
  /\ Len(new) >= Len(old)
  /\ SubSeq(new, 1, Len(old)) = old

\* old without its entry at 0-based position i, the later entries shifted
\* down by one
Without(old, i) == SubSeq(old, 1, i) \o SubSeq(old, i + 2, Len(old))

\* new is old with field key of the entry at 0-based position i set to value
\* and nothing else changed
WithField(new, old, i, key, value) ==
  /\ Len(new) = Len(old)
  /\ \A j \in DOMAIN old :
       new[j] = IF j = i + 1 THEN [old[j] EXCEPT ![key] = value] ELSE old[j]

C22_ResetRestoresDefaults ==
  [][ last'.op = "reset" =>
        /\ form' = initialForm
        /\ sectionOrder' = defaultSectionOrder
        /\ DOMAIN sectionVisibility' = SectionIds
        /\ \A sec \in SectionIds : sectionVisibility'[sec] = TRUE
        /\ DOMAIN errors' = {}
        /\ step' = 0 ]_vars

\* the reset has run in a session that had restored a filled document, a
\* changed order and a hidden section
C22_Witness ==
  /\ last.op = "reset"
  /\ step = 0
  /\ form = initialForm
  /\ storage = Serialize(formComplete, movedSectionOrder, hiddenHobbies)
  /\ sectionVisibility = defaultSectionVisibility

\* the scalar fields with an input bound to handleChange in the model
ScalarFields == PersonalFields \cup {"summary"}

\* C23: a field setter never rejects a value: after handleChange(name,
\* value), for any scalar field and any value, valid or not, the field of
\* the document equals the value and every other field is unchanged.
C23_SetterNeverRejects ==
  mounted =>
    \A name \in ScalarFields :
      \A value \in FieldInputs(name) :
        LET new == handleChange(form, name, value)
        IN  /\ DOMAIN new = DOMAIN form
            /\ new[name] = value
            /\ \A k \in DOMAIN form \ {name} : new[k] = form[k]

\* an email address without a top-level domain has been typed: the document
\* holds it and the error map reports it
C23_Witness ==
  /\ last.op = "change"
  /\ form.email = <<"a","@","b">>
  /\ "email" \in DOMAIN errors
  /\ errors["email"] = MsgEmailInvalid

\* the fields validateField has a rule for
ValidatedFields ==
  {"firstName", "lastName", "email", "phone", "linkedin", "website"}

\* the message the page shows for a field: none when the map has no entry
ErrorOf(errs, field) == IF field \in DOMAIN errs THEN errs[field] ELSE ""

\* C24: the error map is recomputed on every mutation of a validated field:
\* after any operation that changes the value of firstName, lastName,
\* email, phone, linkedin or website (typing, import, or restore from the
\* autosave snapshot) the entry of that field equals the validator's
\* message for the new value.
C24_ErrorsFollowEveryMutation ==
  [][ \A field \in ValidatedFields :
        form'[field] # form[field] =>
          ErrorOf(errors', field) = validateField(field, form'[field]) ]_vars

\* a string made only of letters, whitespace, apostrophes and hyphens
OnlyNameChars(value) ==
  \A i \in DOMAIN value :
    value[i] \in Letters \cup Whitespace \cup {"'", "-"}

HasNonWhitespace(value) == \E i \in DOMAIN value : value[i] \notin Whitespace

C26_OneToggleForEachExperience ==
  mounted =>
    /\ Len(expSugToggles) = Len(form.experienceList)
    /\ \A i \in InRange(form.experienceList) :
         \A d \in {-1, 1} :
           moveExperienceEntry(form, i, d) = form =>
             moveExpSugToggle(expSugToggles, i, d) = expSugToggles

\* C28: in every reachable state the completeness predicate of every step
\* before the current one holds for the current document, for all
\* sequences of edits, next / back, reset and import.
C28_EarlierStepsComplete ==
  mounted => \A k \in 0..(step - 1) : StepComplete(k, form)

DefaultTriple ==
  Triple(initialForm, defaultSectionOrder, defaultSectionVisibility)

DeferredEvents == {"importLoaded", "imageLoaded"}

\* C27: once resetAll has run, the document, the section order and the
\* visibility map stay at their defaults until the next edit or import of
\* the user: the end of a read that an upload or an import started before
\* the reset changes none of them
C27_NothingLandsAfterReset ==
  [][ (last.op = "reset" /\ last'.op \in DeferredEvents)
        => UNCHANGED <<form, sectionOrder, sectionVisibility>> ]_vars

\* C30: the keyword analysis settles: after a render that ran the keyword
\* effect, the component reaches a render that does not run it again
C30_KeywordAnalysisSettles == effects.due ~> ~effects.due

====
